---------------------------- MODULE Spec2Model ----------------------------
(***************************************************************************)
(* Model of firmware_upy/main.py: the frame builders, the bit-banged       *)
(* shift-register link and the button-driven actuator controller.          *)
(*                                                                         *)
(* A Python list is a TLA+ sequence; Python index i is sequence index i+1. *)
(* A pin is its level, 0 or 1.  Every sleep that follows a pin write is    *)
(* part of the action that models the write; the two long waits of         *)
(* respond_to_buttons (action hold, debounce) are actions of their own.    *)
(***************************************************************************)
EXTENDS Integers, Sequences, FiniteSets, TLC

(***************************************************************************)
(* Program constants.                                                      *)
(***************************************************************************)
FrameLen == 48
DotsPerCell == 6
BitsPerDot == 2
NCells == 4

(***************************************************************************)
(* Bounds of the model.                                                    *)
(***************************************************************************)
\* Longest list of cell patterns handed to make_shift_register_list_of_cells.
MaxListLen == 5
\* The counter of completed button cycles saturates here.
MaxCycles == 2

Levels == {0, 1}

\* [False] * n
AllFalse(n) == [i \in 1..n |-> FALSE]

\* [x] * n
Repeat(x, n) == [i \in 1..n |-> x]

(***************************************************************************)
(* The state-to-(IN_A, IN_B) dictionary of the single-dot builder.  A key  *)
(* that is not in the dictionary raises KeyError.                          *)
(***************************************************************************)
StateKeys == {"brake", "high-z", "pos", "neg"}

in_a_in_b_swapped(state) ==
    CASE state = "brake"  -> <<TRUE, TRUE>>
      [] state = "high-z" -> <<FALSE, FALSE>>
      [] state = "pos"    -> <<FALSE, TRUE>>
      [] state = "neg"    -> <<TRUE, FALSE>>

in_a_in_b(state) ==
    CASE state = "brake"  -> <<TRUE, TRUE>>
      [] state = "high-z" -> <<FALSE, FALSE>>
      [] state = "pos"    -> <<TRUE, FALSE>>
      [] state = "neg"    -> <<FALSE, TRUE>>

\* The dictionary literal of make_shift_register_list_of_cells, written out a
\* second time in the source.
in_a_in_b_cells_brake_as_pos(state) ==
    CASE state = "brake"  -> <<TRUE, FALSE>>
      [] state = "high-z" -> <<FALSE, FALSE>>
      [] state = "pos"    -> <<TRUE, FALSE>>
      [] state = "neg"    -> <<FALSE, TRUE>>

in_a_in_b_cells(state) ==
    CASE state = "brake"  -> <<TRUE, TRUE>>
      [] state = "high-z" -> <<FALSE, FALSE>>
      [] state = "pos"    -> <<TRUE, FALSE>>
      [] state = "neg"    -> <<FALSE, TRUE>>

\* The two dictionaries as values: a key outside the domain raises KeyError.
SingleDotDict == [s \in StateKeys |-> in_a_in_b(s)]

CellsDictDefaulting ==
    [s \in StateKeys \cup {"bogus"} |->
        IF s \in StateKeys THEN in_a_in_b_cells(s) ELSE <<FALSE, FALSE>>]

CellsDict == [s \in StateKeys |-> in_a_in_b_cells(s)]

\* What a builder call produces: a returned list, or a raised exception.
Returned(v) == [ok |-> TRUE, val |-> v, err |-> "none"]
Raised(e) == [ok |-> FALSE, val |-> <<>>, err |-> e]

(***************************************************************************)
(* Python list item assignment lst[i] = v: an index in -len..-1 counts     *)
(* from the end, an index outside -len..len-1 raises IndexError.           *)
(***************************************************************************)
IndexInRange(lst, i) == i >= -Len(lst) /\ i < Len(lst)

PyIndex(lst, i) == IF i < 0 THEN i + Len(lst) + 1 ELSE i + 1

SetItem(lst, i, v) == [lst EXCEPT ![PyIndex(lst, i)] = v]

\* base_offset of the single-dot builder: dot_number is 1-indexed.
\* (SingleDotOffsetZeroIndexed is the same without the "- 1".)
SingleDotOffsetZeroIndexed(cell_number, dot_number) ==
    cell_number * DotsPerCell * BitsPerDot + dot_number * BitsPerDot

SingleDotOffset(cell_number, dot_number) ==
    cell_number * DotsPerCell * BitsPerDot + (dot_number - 1) * BitsPerDot

\* base_offset of the list-of-cells builder: dot_number is enumerate()'s, 0-indexed.
\* (CellDotOffsetNarrowCell is the same with 6 bits to a cell.)
CellDotOffsetNarrowCell(cell_number, dot_number) ==
    cell_number * DotsPerCell + dot_number * BitsPerDot

CellDotOffset(cell_number, dot_number) ==
    cell_number * DotsPerCell * BitsPerDot + dot_number * BitsPerDot

(***************************************************************************)
(* The two assignments shift_register_state[base_offset] = in_a_in_b[0]    *)
(* and shift_register_state[base_offset + 1] = in_a_in_b[1], after the     *)
(* dictionary lookup: the first exception raised ends the call.            *)
(***************************************************************************)
SetDot(lst, base_offset, state, dict) ==
    IF state \notin DOMAIN dict THEN Raised("KeyError")
    ELSE IF ~IndexInRange(lst, base_offset) THEN Raised("IndexError")
    ELSE IF ~IndexInRange(lst, base_offset + 1) THEN Raised("IndexError")
    ELSE Returned(SetItem(SetItem(lst, base_offset, dict[state][1]),
                          base_offset + 1, dict[state][2]))

make_shift_register_state_single_dot(cell_number, dot_number, state) ==
    SetDot(AllFalse(FrameLen), SingleDotOffset(cell_number, dot_number), state,
           SingleDotDict)

(***************************************************************************)
(* A cell pattern is a string (one state for the six dots) or a tuple of   *)
(* states: [isstr, str, tup].                                              *)
(***************************************************************************)
Uniform(s) == [isstr |-> TRUE, str |-> s, tup |-> <<>>]
PerDot(t) == [isstr |-> FALSE, str |-> "", tup |-> t]

\* if isinstance(cell_state, str): cell_state = (cell_state,) * 6
ExpandCell(cell_state) ==
    IF cell_state.isstr THEN Repeat(cell_state.str, DotsPerCell) ELSE cell_state.tup

\* The inner loop, for dot_number, state in enumerate(cell_state), from dot d on.
\* (In both loops the list so far, res, is bound once per iteration: r.)
RECURSIVE DotsLoop(_, _, _, _)
DotsLoop(res, cell_number, tup, d) ==
    LET Body(r) ==
            IF ~r.ok \/ d >= Len(tup) THEN r
            ELSE DotsLoop(SetDot(r.val, CellDotOffset(cell_number, d),
                                 tup[d + 1], CellsDict),
                          cell_number, tup, d + 1)
    IN  CHOOSE out \in {Body(r) : r \in {res}} : TRUE

\* The outer loop, for cell_number, cell_state in enumerate(cell_states), from cell c on.
RECURSIVE CellsLoop(_, _, _)
CellsLoop(res, cell_states, c) ==
    LET Body(r) ==
            IF ~r.ok \/ c >= Len(cell_states) THEN r
            ELSE CellsLoop(DotsLoop(r, c, ExpandCell(cell_states[c + 1]), 0),
                           cell_states, c + 1)
    IN  CHOOSE out \in {Body(r) : r \in {res}} : TRUE

\* shift_register_state = [False] * 48
BlankCellsFrameOneShort == AllFalse(FrameLen - 1)

BlankCellsFrame == AllFalse(FrameLen)

\* The same, given only the first four patterns of a longer list.
make_shift_register_list_of_cells_truncating(cell_states) ==
    CellsLoop(Returned(BlankCellsFrame),
              SubSeq(cell_states, 1, IF Len(cell_states) < NCells
                                     THEN Len(cell_states) ELSE NCells), 0)

make_shift_register_list_of_cells(cell_states) ==
    CellsLoop(Returned(BlankCellsFrame), cell_states, 0)

(***************************************************************************)
(* State.                                                                  *)
(*   ser_in, srck, n_srclr, rclk, n_oe  the five control lines (GP2..GP6)  *)
(*   led0, led1                         the two indicator lines            *)
(*   sw1, sw2                           the two button inputs, active low  *)
(*   chain, outputs                     the shift stages and the latched   *)
(*                                      (storage) stages of the registers; *)
(*                                      chain[i+1] is stage i, counted     *)
(*                                      from the serial input              *)
(*   pc, caller, stage                  the program's position             *)
(*   data, k                            set_shift_registers' argument and  *)
(*                                      the number of bits already sent    *)
(*   direction                          respond_to_buttons' local          *)
(*   ret                                how the last link call ended       *)
(*   call, built                        a builder call and its result      *)
(* History, for stating properties:                                        *)
(*   srck_rises, rclk_rises, line_writes  edges and control-line writes of *)
(*                                      the current set_shift_registers    *)
(*   committed                          the outputs when init returned, or *)
(*                                      the frame of the last push that    *)
(*                                      returned                           *)
(*   pushed                             the frames pushed by the current   *)
(*                                      respond_to_buttons call            *)
(*   samples                            the button levels it read, and the *)
(*                                      two levels when it read the first  *)
(*   cycles                             completed button cycles            *)
(***************************************************************************)
VARIABLES ser_in, srck, n_srclr, rclk, n_oe, led0, led1, sw1, sw2,
          chain, outputs, pc, caller, stage, data, k, direction, ret,
          call, built, srck_rises, rclk_rises, line_writes, committed,
          pushed, samples, cycles

lines == <<ser_in, srck, n_srclr, rclk, n_oe>>
leds == <<led0, led1>>
buttons == <<sw1, sw2>>
registers == <<chain, outputs>>
linkcall == <<data, k, ret>>
linkhist == <<srck_rises, rclk_rises, line_writes, committed>>
control == <<pc, caller, stage, direction>>
builder == <<call, built>>
cyclehist == <<pushed, samples, cycles>>
vars == <<lines, leds, buttons, registers, linkcall, linkhist, control, builder,
          cyclehist>>

(***************************************************************************)
(* The shift registers, as the firmware's comments describe them: SRCK's   *)
(* rising edge moves every stage one place away from the serial input and  *)
(* takes SER_IN into stage 0; RCLK's rising edge copies the shift stages   *)
(* to the outputs; N_SRCLR low clears the shift stages.                    *)
(***************************************************************************)
ShiftIn(ch, bit) == <<bit>> \o SubSeq(ch, 1, Len(ch) - 1)

\* The chain after SRCK is written v.
SrckWritten(v) ==
    IF srck = 0 /\ v = 1 /\ n_srclr = 1 THEN ShiftIn(chain, ser_in = 1) ELSE chain

\* The outputs after RCLK is written v.
RclkWritten(v) == IF rclk = 0 /\ v = 1 THEN chain ELSE outputs

\* What the registers may hold at power-up.
PowerUpContents == {AllFalse(FrameLen), [i \in 1..FrameLen |-> i % 3 = 0]}

NoCall == [fn |-> "none"]
NoBuilt == Raised("none")

\* The lines and the registers at power-up: nothing sets them before main runs.
PowerUp ==
    /\ ser_in \in Levels /\ srck \in Levels /\ n_srclr \in Levels
    /\ rclk \in Levels /\ n_oe \in Levels
    /\ led0 \in Levels /\ led1 \in Levels
    /\ chain \in PowerUpContents /\ outputs \in PowerUpContents

\* No call has been made yet.
NothingCalled ==
    /\ data = <<>> /\ k = 0 /\ ret = "none" /\ direction = "none" /\ stage = "none"
    /\ srck_rises = 0 /\ rclk_rises = 0 /\ line_writes = 0
    /\ committed = <<>> /\ pushed = <<>> /\ cycles = 0
    /\ samples = [read |-> <<>>, levels |-> <<>>]

(***************************************************************************)
(* init_shift_register                                                     *)
(***************************************************************************)
\* Where init_shift_register returns to.
InitReturn == IF caller = "main" THEN "main_led0" ELSE "link_idle"

\* PIN_SHIFT_N_SRCLR.value(0); sleep.  Whether the clear also resets the
\* storage stages depends on the register part: either outcome is taken.
init_clear_low ==
    /\ pc = "init_clear_low"
    /\ n_srclr' = 0
    /\ chain' = AllFalse(FrameLen)
    /\ \E o \in {outputs, AllFalse(FrameLen)} : outputs' = o
    /\ pc' = "init_clear_high"
    /\ UNCHANGED <<ser_in, srck, rclk, n_oe, leds, buttons, linkcall, linkhist,
                   caller, stage, direction, builder, cyclehist>>

\* PIN_SHIFT_N_SRCLR.value(1); sleep
init_clear_high ==
    /\ pc = "init_clear_high"
    /\ n_srclr' = 1
    /\ pc' = "init_oe"
    /\ UNCHANGED <<ser_in, srck, rclk, n_oe, leds, buttons, registers, linkcall,
                   linkhist, caller, stage, direction, builder, cyclehist>>

\* PIN_SHIFT_N_OE.value(0)
\* (init_oe_disabled writes 1 instead.)
init_oe_disabled ==
    /\ pc = "init_oe"
    /\ n_oe' = 1
    /\ pc' = "init_srck"
    /\ UNCHANGED <<ser_in, srck, n_srclr, rclk, leds, buttons, registers, linkcall,
                   linkhist, caller, stage, direction, builder, cyclehist>>

init_oe ==
    /\ pc = "init_oe"
    /\ n_oe' = 0
    /\ pc' = "init_srck"
    /\ UNCHANGED <<ser_in, srck, n_srclr, rclk, leds, buttons, registers, linkcall,
                   linkhist, caller, stage, direction, builder, cyclehist>>

\* PIN_SHIFT_SRCK.value(0)
\* (init_srck_skipped leaves SRCK as it was at power-up.)
init_srck_skipped ==
    /\ pc = "init_srck"
    /\ pc' = "init_rclk"
    /\ UNCHANGED <<lines, leds, buttons, registers, linkcall, linkhist, caller,
                   stage, direction, builder, cyclehist>>

init_srck ==
    /\ pc = "init_srck"
    /\ srck' = 0
    /\ chain' = SrckWritten(0)
    /\ pc' = "init_rclk"
    /\ UNCHANGED <<ser_in, n_srclr, rclk, n_oe, leds, buttons, outputs, linkcall,
                   linkhist, caller, stage, direction, builder, cyclehist>>

\* PIN_SHIFT_RCLK.value(0); sleep; return
init_rclk ==
    /\ pc = "init_rclk"
    /\ rclk' = 0
    /\ outputs' = RclkWritten(0)
    /\ committed' = outputs'
    /\ pc' = InitReturn
    /\ UNCHANGED <<ser_in, srck, n_srclr, n_oe, leds, buttons, chain, linkcall,
                   srck_rises, rclk_rises, line_writes, caller, stage, direction,
                   builder, cyclehist>>

(***************************************************************************)
(* set_shift_registers(data)                                               *)
(***************************************************************************)
\* The bit the loop over reversed(data) presents after k bits were sent.
ForwardItem(d, n) == d[n + 1]

ReversedItem(d, n) == d[Len(d) - n]

\* Where set_shift_registers returns to.
PushReturnNoDebounce ==
    IF caller = "main" THEN (IF stage = "act" THEN "hold" ELSE "clear_led0")
    ELSE "link_idle"

PushReturn ==
    IF caller = "main" THEN (IF stage = "act" THEN "hold" ELSE "debounce")
    ELSE "link_idle"

\* Where an exception raised in set_shift_registers ends up: nothing in
\* respond_to_buttons, main or the module's while True catches it.
PushRaise == IF caller = "main" THEN "halted" ELSE "link_idle"

\* Entry of a call: the argument is bound and the call's bookkeeping starts.
EnterPush(f) ==
    /\ data' = f /\ k' = 0 /\ ret' = "none"
    /\ srck_rises' = 0 /\ rclk_rises' = 0 /\ line_writes' = 0
    /\ pc' = "ssr_check"

\* for bit in reversed(data): the loop body runs again, or the loop has ended,
\* when n bits were sent.
AfterBitOneShort(d, n) == IF n < Len(d) - 1 THEN "ssr_ser_in" ELSE "ssr_rclk_high"

AfterBit(d, n) == IF n < Len(d) THEN "ssr_ser_in" ELSE "ssr_rclk_high"

\* The length check that lets the frame through.
LengthAcceptedAtMost(d) == Len(d) <= FrameLen

LengthAccepted(d) == Len(d) = FrameLen

\* if len(data) != 48: raise ValueError(...)
\* (ssr_check_blanks_outputs also disables the outputs for the transfer.)
ssr_check_blanks_outputs ==
    /\ pc = "ssr_check"
    /\ n_oe' = 1
    /\ IF LengthAccepted(data)
       THEN /\ pc' = AfterBit(data, k)
            /\ ret' = ret
       ELSE /\ pc' = PushRaise
            /\ ret' = "ValueError"
    /\ UNCHANGED <<ser_in, srck, n_srclr, rclk, leds, buttons, registers, data, k,
                   linkhist, caller, stage, direction, builder, cyclehist>>

ssr_check ==
    /\ pc = "ssr_check"
    /\ IF LengthAccepted(data)
       THEN /\ pc' = AfterBit(data, k)
            /\ ret' = ret
       ELSE /\ pc' = PushRaise
            /\ ret' = "ValueError"
    /\ UNCHANGED <<lines, leds, buttons, registers, data, k, linkhist, caller,
                   stage, direction, builder, cyclehist>>

\* PIN_SHIFT_SER_IN.value(1 if bit else 0); sleep
ssr_ser_in ==
    /\ pc = "ssr_ser_in"
    /\ ser_in' = (IF ReversedItem(data, k) THEN 1 ELSE 0)
    /\ line_writes' = line_writes + 1
    /\ pc' = "ssr_srck_high"
    /\ UNCHANGED <<srck, n_srclr, rclk, n_oe, leds, buttons, registers, linkcall,
                   srck_rises, rclk_rises, committed, caller, stage, direction,
                   builder, cyclehist>>

\* PIN_SHIFT_SRCK.value(1); sleep
ssr_srck_high ==
    /\ pc = "ssr_srck_high"
    /\ srck' = 1
    /\ chain' = SrckWritten(1)
    /\ srck_rises' = srck_rises + (IF srck = 0 THEN 1 ELSE 0)
    /\ line_writes' = line_writes + 1
    /\ pc' = "ssr_srck_low"
    /\ UNCHANGED <<ser_in, n_srclr, rclk, n_oe, leds, buttons, outputs, linkcall,
                   rclk_rises, committed, caller, stage, direction, builder,
                   cyclehist>>

\* PIN_SHIFT_SRCK.value(0); sleep; the for loop takes its next item or ends
\* (ssr_srck_left_high goes on to the next item without lowering SRCK.)
ssr_srck_left_high ==
    /\ pc = "ssr_srck_low"
    /\ k' = k + 1
    /\ pc' = AfterBit(data, k + 1)
    /\ UNCHANGED <<lines, leds, buttons, registers, data, ret, linkhist, caller,
                   stage, direction, builder, cyclehist>>

ssr_srck_low ==
    /\ pc = "ssr_srck_low"
    /\ srck' = 0
    /\ chain' = SrckWritten(0)
    /\ k' = k + 1
    /\ line_writes' = line_writes + 1
    /\ pc' = AfterBit(data, k + 1)
    /\ UNCHANGED <<ser_in, n_srclr, rclk, n_oe, leds, buttons, outputs, data, ret,
                   srck_rises, rclk_rises, committed, caller, stage, direction,
                   builder, cyclehist>>

\* PIN_SHIFT_RCLK.value(1); sleep
ssr_rclk_high ==
    /\ pc = "ssr_rclk_high"
    /\ rclk' = 1
    /\ outputs' = RclkWritten(1)
    /\ rclk_rises' = rclk_rises + (IF rclk = 0 THEN 1 ELSE 0)
    /\ line_writes' = line_writes + 1
    /\ pc' = "ssr_rclk_low"
    /\ UNCHANGED <<ser_in, srck, n_srclr, n_oe, leds, buttons, chain, linkcall,
                   srck_rises, committed, caller, stage, direction, builder,
                   cyclehist>>

\* PIN_SHIFT_RCLK.value(0); sleep; return
ssr_rclk_low ==
    /\ pc = "ssr_rclk_low"
    /\ rclk' = 0
    /\ outputs' = RclkWritten(0)
    /\ line_writes' = line_writes + 1
    /\ ret' = "ok"
    /\ committed' = data
    /\ pushed' = (IF caller = "main" THEN Append(pushed, data) ELSE pushed)
    /\ pc' = PushReturn
    /\ UNCHANGED <<ser_in, srck, n_srclr, n_oe, leds, buttons, chain, data, k,
                   srck_rises, rclk_rises, caller, stage, direction, builder,
                   samples, cycles>>

set_shift_registers ==
    \/ ssr_check
    \/ ssr_ser_in
    \/ ssr_srck_high
    \/ ssr_srck_low
    \/ ssr_rclk_high
    \/ ssr_rclk_low

init_shift_register ==
    \/ init_clear_low
    \/ init_clear_high
    \/ init_oe
    \/ init_srck
    \/ init_rclk

(***************************************************************************)
(* respond_to_buttons                                                      *)
(***************************************************************************)
\* direction = "pos" | "neg" of the two branches.
Sw1DirectionSwapped == "neg"

Sw1Direction == "pos"

Sw2Direction == "neg"

\* [direction] * 4
ActCellsFirstOnly(d) == <<Uniform(d)>>

ActCells(d) == Repeat(Uniform(d), NCells)

\* ["high-z"] * 4
RevertCellsLeftDriven == Repeat(Uniform("brake"), NCells)

RevertCells == Repeat(Uniform("high-z"), NCells)

\* if PIN_SW1.value() == 0: PIN_GP_LED_0.value(1); direction = "pos"
sample_sw1 ==
    /\ pc = "sample_sw1"
    /\ samples' = [read |-> <<sw1>>, levels |-> <<sw1, sw2>>]
    /\ pushed' = <<>>
    /\ IF sw1 = 0
       THEN /\ led0' = 1
            /\ direction' = Sw1Direction
            /\ pc' = "act_call"
       ELSE /\ led0' = led0
            /\ direction' = direction
            /\ pc' = "sample_sw2"
    /\ UNCHANGED <<lines, led1, buttons, registers, linkcall, linkhist, caller,
                   stage, builder, cycles>>

\* elif PIN_SW2.value() == 0: PIN_GP_LED_1.value(1); direction = "neg"
\* else: return
\* (sample_sw2_led_first writes the indicator before it tests the button.)
sample_sw2_led_first ==
    /\ pc = "sample_sw2"
    /\ samples' = [samples EXCEPT !.read = Append(@, sw2)]
    /\ led1' = 1
    /\ IF sw2 = 0
       THEN /\ direction' = Sw2Direction
            /\ pc' = "act_call"
       ELSE /\ direction' = direction
            /\ pc' = "sample_sw1"
    /\ UNCHANGED <<lines, led0, buttons, registers, linkcall, linkhist, caller,
                   stage, builder, pushed, cycles>>

sample_sw2 ==
    /\ pc = "sample_sw2"
    /\ samples' = [samples EXCEPT !.read = Append(@, sw2)]
    /\ IF sw2 = 0
       THEN /\ led1' = 1
            /\ direction' = Sw2Direction
            /\ pc' = "act_call"
       ELSE /\ led1' = led1
            /\ direction' = direction
            /\ pc' = "sample_sw1"
    /\ UNCHANGED <<lines, led0, buttons, registers, linkcall, linkhist, caller,
                   stage, builder, pushed, cycles>>

\* The call set_shift_registers(make_shift_register_list_of_cells(cells)):
\* an exception of the builder leaves the program as one of the link does.
BuildAndPush(cells, st) ==
    LET b == make_shift_register_list_of_cells(cells)
    IN  IF b.ok
        THEN /\ EnterPush(b.val)
             /\ stage' = st
        ELSE /\ pc' = PushRaise
             /\ ret' = b.err
             /\ UNCHANGED <<data, k, srck_rises, rclk_rises, line_writes, stage>>

\* set_shift_registers(make_shift_register_list_of_cells([direction] * 4))
act_call ==
    /\ pc = "act_call"
    /\ BuildAndPush(ActCells(direction), "act")
    /\ UNCHANGED <<lines, leds, buttons, registers, committed, caller, direction,
                   builder, cyclehist>>

\* time.sleep_ms(ACTION_TIME_MS)
\* (hold_polls_buttons is a hold that looks at button 2 when it ends.)
hold_polls_buttons ==
    /\ pc = "hold"
    /\ pc' = "revert_call"
    /\ samples' = [samples EXCEPT !.read = Append(@, sw2)]
    /\ direction' = (IF sw2 = 0 THEN "neg" ELSE direction)
    /\ UNCHANGED <<lines, leds, buttons, registers, linkcall, linkhist, caller,
                   stage, builder, pushed, cycles>>

hold ==
    /\ pc = "hold"
    /\ pc' = "revert_call"
    /\ UNCHANGED <<lines, leds, buttons, registers, linkcall, linkhist, caller,
                   stage, direction, builder, cyclehist>>

\* set_shift_registers(make_shift_register_list_of_cells(["high-z"] * 4))
revert_call ==
    /\ pc = "revert_call"
    /\ BuildAndPush(RevertCells, "revert")
    /\ UNCHANGED <<lines, leds, buttons, registers, committed, caller, direction,
                   builder, cyclehist>>

\* time.sleep_ms(DEBOUNCE_TIME_MS)
debounce_until_release ==
    /\ pc = "debounce"
    /\ sw1 = 1 /\ sw2 = 1
    /\ pc' = "clear_led0"
    /\ UNCHANGED <<lines, leds, buttons, registers, linkcall, linkhist, caller,
                   stage, direction, builder, cyclehist>>

debounce ==
    /\ pc = "debounce"
    /\ pc' = "clear_led0"
    /\ UNCHANGED <<lines, leds, buttons, registers, linkcall, linkhist, caller,
                   stage, direction, builder, cyclehist>>

\* PIN_GP_LED_0.value(0)
\* (clear_led0_skipped goes on without the write.)
clear_led0_skipped ==
    /\ pc = "clear_led0"
    /\ pc' = "clear_led1"
    /\ UNCHANGED <<lines, leds, buttons, registers, linkcall, linkhist, caller,
                   stage, direction, builder, cyclehist>>

clear_led0 ==
    /\ pc = "clear_led0"
    /\ led0' = 0
    /\ pc' = "clear_led1"
    /\ UNCHANGED <<lines, led1, buttons, registers, linkcall, linkhist, caller,
                   stage, direction, builder, cyclehist>>

\* PIN_GP_LED_1.value(0); return, and main's while 1 calls again
clear_led1 ==
    /\ pc = "clear_led1"
    /\ led1' = 0
    /\ direction' = "none"
    /\ stage' = "none"
    /\ cycles' = (IF cycles < MaxCycles THEN cycles + 1 ELSE cycles)
    /\ pc' = "sample_sw1"
    /\ UNCHANGED <<lines, led0, buttons, registers, linkcall, linkhist, caller,
                   builder, pushed, samples>>

respond_to_buttons ==
    \/ sample_sw1
    \/ sample_sw2
    \/ act_call
    \/ hold
    \/ revert_call
    \/ debounce
    \/ clear_led0
    \/ clear_led1

(***************************************************************************)
(* main, called by the module's while True                                 *)
(***************************************************************************)
\* print("Starting init."); init_shift_register()
main_start ==
    /\ pc = "main_start"
    /\ pc' = "init_clear_low"
    /\ UNCHANGED <<lines, leds, buttons, registers, linkcall, linkhist, caller,
                   stage, direction, builder, cyclehist>>

\* PIN_GP_LED_0.value(0)
main_led0 ==
    /\ pc = "main_led0"
    /\ led0' = 0
    /\ pc' = "main_led1"
    /\ UNCHANGED <<lines, led1, buttons, registers, linkcall, linkhist, caller,
                   stage, direction, builder, cyclehist>>

\* PIN_GP_LED_1.value(0); while 0 is skipped; while 1: respond_to_buttons()
main_led1 ==
    /\ pc = "main_led1"
    /\ led1' = 0
    /\ pc' = "sample_sw1"
    /\ UNCHANGED <<lines, led0, buttons, registers, linkcall, linkhist, caller,
                   stage, direction, builder, cyclehist>>

main ==
    \/ main_start
    \/ main_led0
    \/ main_led1

\* The user presses or releases buttons at any time.
press_or_release ==
    /\ \E a \in Levels, b \in Levels :
          /\ <<a, b>> # <<sw1, sw2>>
          /\ sw1' = a
          /\ sw2' = b
    /\ UNCHANGED <<lines, leds, registers, linkcall, linkhist, control, builder,
                   cyclehist>>

(***************************************************************************)
(* The program: power-up, then while True: main().                         *)
(***************************************************************************)
Init ==
    /\ PowerUp
    /\ NothingCalled
    /\ call = NoCall /\ built = NoBuilt
    /\ sw1 \in Levels /\ sw2 \in Levels
    /\ caller = "main"
    /\ pc = "main_start"

Next ==
    \/ main
    \/ init_shift_register
    \/ respond_to_buttons
    \/ set_shift_registers
    \/ press_or_release

Spec == Init /\ [][Next]_vars

(***************************************************************************)
(* The program with a fault in a control cycle.  The program as written    *)
(* builds only frames of 48 bits, so no exception is ever raised in it;    *)
(* here a cycle may hand set_shift_registers a frame one bit short (a      *)
(* programming error upstream of the link), and the ValueError of the      *)
(* length check then propagates as the code lets it.                       *)
(***************************************************************************)
act_call_faulty ==
    /\ pc = "act_call"
    /\ EnterPush(Repeat(FALSE, FrameLen - 1))
    /\ stage' = "act"
    /\ UNCHANGED <<lines, leds, buttons, registers, committed, caller, direction,
                   builder, cyclehist>>

NextFault ==
    \/ Next
    \/ act_call_faulty

SpecFault == Init /\ [][NextFault]_vars

(***************************************************************************)
(* The link alone, driven by a caller that initializes it and then pushes  *)
(* frames of its choice, as basic_demo and braille_demo do; the caller     *)
(* sees an exception of set_shift_registers and goes on.                   *)
(***************************************************************************)
OneHot(i) == [j \in 1..FrameLen |-> j = i + 1]

\* outputs = [(i % 2 == 0) for i in range(48)] and [(i % 2 == 1) ...] of basic_demo
EvenBits == [j \in 1..FrameLen |-> (j - 1) % 2 = 0]
OddBits == [j \in 1..FrameLen |-> (j - 1) % 2 = 1]

LinkHotBits == {0, 1, 30, 47}

LinkFrames ==
    {AllFalse(FrameLen), EvenBits, OddBits, Repeat(TRUE, FrameLen)}
    \cup {OneHot(i) : i \in LinkHotBits}
    \cup {<<>>, Repeat(TRUE, FrameLen - 1), [j \in 1..(FrameLen + 1) |-> j = 1]}

link_push ==
    /\ pc = "link_idle"
    /\ \E f \in LinkFrames : EnterPush(f)
    /\ UNCHANGED <<lines, leds, buttons, registers, committed, caller, stage,
                   direction, builder, cyclehist>>

InitLink ==
    /\ PowerUp
    /\ NothingCalled
    /\ call = NoCall /\ built = NoBuilt
    /\ led0 = 0 /\ led1 = 0
    /\ sw1 = 1 /\ sw2 = 1
    /\ caller = "harness"
    /\ pc = "init_clear_low"

NextLink ==
    \/ init_shift_register
    \/ link_push
    \/ set_shift_registers

SpecLink == InitLink /\ [][NextLink]_vars

(***************************************************************************)
(* The two frame builders, called with arguments from bounded sets.        *)
(***************************************************************************)
BuildCellNumbers == (-1)..NCells
BuildDotNumbers == 0..(DotsPerCell + 1)
BuildStates == StateKeys \cup {"bogus"}

BuildPatterns ==
    { Uniform("pos"), Uniform("brake"), Uniform("bogus"),
      PerDot(<<"neg", "high-z", "pos", "brake", "high-z", "neg">>),
      PerDot(<<"pos", "high-z", "bogus", "pos", "high-z", "high-z">>) }

SingleDotCalls ==
    [fn : {"single_dot"}, cell_number : BuildCellNumbers,
     dot_number : BuildDotNumbers, state : BuildStates]

ListOfCellsCalls ==
    [fn : {"list_of_cells"},
     cell_states : UNION {[1..n -> BuildPatterns] : n \in 0..MaxListLen}]

build_single_dot ==
    /\ pc = "build_call"
    /\ call.fn = "single_dot"
    /\ built' = make_shift_register_state_single_dot(
                    call.cell_number, call.dot_number, call.state)
    /\ pc' = "build_done"
    /\ UNCHANGED <<lines, leds, buttons, registers, linkcall, linkhist, caller,
                   stage, direction, call, cyclehist>>

build_list_of_cells ==
    /\ pc = "build_call"
    /\ call.fn = "list_of_cells"
    /\ built' = make_shift_register_list_of_cells(call.cell_states)
    /\ pc' = "build_done"
    /\ UNCHANGED <<lines, leds, buttons, registers, linkcall, linkhist, caller,
                   stage, direction, call, cyclehist>>

InitBuild ==
    /\ ser_in = 0 /\ srck = 0 /\ n_srclr = 1 /\ rclk = 0 /\ n_oe = 0
    /\ led0 = 0 /\ led1 = 0 /\ sw1 = 1 /\ sw2 = 1
    /\ chain = AllFalse(FrameLen) /\ outputs = AllFalse(FrameLen)
    /\ NothingCalled
    /\ call \in SingleDotCalls \cup ListOfCellsCalls
    /\ built = NoBuilt
    /\ caller = "harness"
    /\ pc = "build_call"

NextBuild ==
    \/ build_single_dot
    \/ build_list_of_cells

SpecBuild == InitBuild /\ [][NextBuild]_vars

(***************************************************************************)
(* The builders called directly, or the program with an unrecognized state *)
(* tag in a cycle: the program as written uses only "pos", "neg" and       *)
(* "high-z", so here a cycle may build its frame from a tag that is not in *)
(* the dictionary, and the KeyError propagates as the code lets it.        *)
(***************************************************************************)
act_call_bad_state ==
    /\ pc = "act_call"
    /\ BuildAndPush(ActCells("bogus"), "act")
    /\ UNCHANGED <<lines, leds, buttons, registers, committed, caller, direction,
                   builder, cyclehist>>

NextBadState ==
    \/ Next
    \/ act_call_bad_state
    \/ NextBuild

SpecBadState == (Init \/ InitBuild) /\ [][NextBadState]_vars

(***************************************************************************)
(* The builders called directly, and the program.                          *)
(***************************************************************************)
NextBuildAndRun ==
    \/ Next
    \/ NextBuild

SpecBuildAndRun == (Init \/ InitBuild) /\ [][NextBuildAndRun]_vars

\* The program, or the link under a caller that pushes any frame.
NextLinkAndRun ==
    \/ Next
    \/ link_push

SpecLinkAndRun == (Init \/ InitLink) /\ [][NextLinkAndRun]_vars

(***************************************************************************)
(* The program under fair scheduling: the processor runs the next          *)
(* statement, and every sleep ends; the user is not obliged to do anything.*)
(***************************************************************************)
ProgramStep ==
    \/ main
    \/ init_shift_register
    \/ respond_to_buttons
    \/ set_shift_registers

SpecFair == Spec /\ WF_vars(ProgramStep)

(***************************************************************************)
(* Properties.                                                             *)
(***************************************************************************)
InitPcs == {"main_start", "init_clear_low", "init_clear_high", "init_oe",
            "init_srck", "init_rclk"}
PushPcs == {"ssr_check", "ssr_ser_in", "ssr_srck_high", "ssr_srck_low",
            "ssr_rclk_high", "ssr_rclk_low"}
ShiftingPcs == {"ssr_ser_in", "ssr_srck_high", "ssr_srck_low"}

\* set_shift_registers has just returned to the link's caller without raising.
PushReturned == pc = "link_idle" /\ ret = "ok"

\* C1: when set_shift_registers(f) has returned, shift stage i holds f[i] for
\* every i in 0..47 and the latched outputs equal f, whatever the chain held
\* before the call.
C1_PushPlacesEveryBit ==
    PushReturned =>
        /\ Len(data) = FrameLen
        /\ \A i \in 0..(FrameLen - 1) : chain[i + 1] = data[i + 1]
        /\ outputs = data

\* A frame that is not its own mirror image was pushed over a chain that held
\* another frame.
C1_Witness ==
    /\ PushReturned
    /\ data = OneHot(1)
    /\ chain = OneHot(1)
    /\ outputs = OneHot(1)

\* The parts of C2: the state invariant, then the two step conditions.
C2_OutputsWhole ==
    pc \notin InitPcs =>
        \/ outputs = committed
        \/ /\ outputs = data
           /\ srck_rises = FrameLen
           /\ pc = "ssr_rclk_low"

C2_OutputsChangeOnLatchOnly ==
    (pc \notin InitPcs /\ outputs' # outputs) => (rclk = 0 /\ rclk' = 1)

C2_LatchAfterFullFrame ==
    (pc \notin InitPcs /\ rclk = 0 /\ rclk' = 1) =>
        /\ pc = "ssr_rclk_high"
        /\ k = FrameLen
        /\ srck_rises = FrameLen
        /\ chain = data

\* C2: after init, the latched outputs are the content init left or one
\* complete frame passed to set_shift_registers (the frame of the last push
\* that returned, or the current frame once its 48 bits are all clocked in);
\* they change only on a rising edge of RCLK, and RCLK rises only after the
\* 48th bit of the current frame, never while bits are being shifted.
C2_NoTornFrame ==
    /\ []C2_OutputsWhole
    /\ [][C2_OutputsChangeOnLatchOnly /\ C2_LatchAfterFullFrame]_vars

\* The second of two different frames is half shifted in while the outputs
\* still show the first.
C2_Witness ==
    /\ pc = "ssr_srck_low"
    /\ k = 20
    /\ data = EvenBits
    /\ committed = OddBits
    /\ outputs = OddBits
    /\ chain # outputs

\* The parts of C3: what holds of a rejected call, and the rejecting step.
C3_Rejected ==
    (Len(data) # FrameLen /\ (pc \in PushPcs \/ ret = "ValueError")) =>
        /\ pc \in {"ssr_check", "link_idle"}
        /\ (pc = "link_idle" => ret = "ValueError")
        /\ line_writes = 0
        /\ srck_rises = 0
        /\ rclk_rises = 0

C3_RejectionStep ==
    (pc = "ssr_check" /\ Len(data) # FrameLen /\ pc' # pc) =>
        /\ ret' = "ValueError"
        /\ pc' = "link_idle"
        /\ UNCHANGED <<lines, registers>>

\* C3: a frame whose length is not 48 is rejected with ValueError before any
\* control line is written: the call makes no SRCK or RCLK edge, never gets
\* past the length check, and the step that rejects it leaves the five lines,
\* the shift chain and the latched outputs as they were.
C3_LengthMismatchNoEffect == []C3_Rejected /\ [][C3_RejectionStep]_vars

\* A frame of 47 bits was rejected after an earlier push had returned.
C3_Witness ==
    /\ pc = "link_idle"
    /\ ret = "ValueError"
    /\ Len(data) = FrameLen - 1
    /\ committed = EvenBits
    /\ outputs = EvenBits

(***************************************************************************)
(* The frame layout and the code table as the design documents give them:  *)
(* bit index of (cell, dot, bitOffset) = cell*12 + dot*2 + bitOffset, with *)
(* dot counted from 0; HighImpedance=(0,0), Positive=(1,0),                *)
(* Negative=(0,1), Brake=(1,1).                                            *)
(***************************************************************************)
encode(state) ==
    [b \in {0, 1} |->
        IF b = 0 THEN state \in {"pos", "brake"} ELSE state \in {"neg", "brake"}]

BitIndex(cell, dot, b) == cell * 12 + dot * 2 + b

\* Python's frame[i]
Bit(frame, i) == frame[i + 1]

\* The frame that is high-impedance but for (cell, dot), which carries state.
OnlyDot(frame, cell, dot, state) ==
    /\ Len(frame) = FrameLen
    /\ \A i \in 0..(FrameLen - 1) :
          Bit(frame, i) = (IF i = BitIndex(cell, dot, 0) THEN encode(state)[0]
                           ELSE IF i = BitIndex(cell, dot, 1) THEN encode(state)[1]
                           ELSE FALSE)

SingleDotDone == pc = "build_done" /\ call.fn = "single_dot"
ListOfCellsDone == pc = "build_done" /\ call.fn = "list_of_cells"

\* C8 as stated: for cell in 0..3, dot in 0..5 and a state of the table, the
\* single-dot builder called with (cell, dot, state) returns a frame of 48 bits
\* whose bits cell*12+dot*2 and cell*12+dot*2+1 are encode(state), all others
\* false.
C8_SingleDotZeroIndexed ==
    (/\ SingleDotDone
     /\ call.cell_number \in 0..(NCells - 1)
     /\ call.dot_number \in 0..(DotsPerCell - 1)
     /\ call.state \in StateKeys) =>
        /\ built.ok
        /\ OnlyDot(built.val, call.cell_number, call.dot_number, call.state)

\* C8 amended: the builder's dot_number counts from 1.  For cell in 0..3, dot
\* in 0..5 and a state of the table, the call with dot_number = dot + 1 returns
\* a frame of 48 bits whose bits cell*12+dot*2 and cell*12+dot*2+1 are
\* encode(state), all others false.
C8_SingleDotOneIndexed ==
    (/\ SingleDotDone
     /\ call.cell_number \in 0..(NCells - 1)
     /\ call.dot_number - 1 \in 0..(DotsPerCell - 1)
     /\ call.state \in StateKeys) =>
        /\ built.ok
        /\ OnlyDot(built.val, call.cell_number, call.dot_number - 1, call.state)

\* The last dot of the last cell, braked: both of the frame's last two bits set.
C8_Witness ==
    /\ SingleDotDone
    /\ call.cell_number = NCells - 1
    /\ call.dot_number = DotsPerCell
    /\ call.state = "brake"
    /\ built.ok
    /\ Bit(built.val, 46) /\ Bit(built.val, 47)

\* The indices of the frame's true bits.
TrueBits(frame) == {i \in 0..(Len(frame) - 1) : Bit(frame, i)}

\* The parts of C9: the scenario, then the general index rule.
C9_LegacyScenario ==
    (SingleDotDone /\ call.cell_number = 1 /\ call.dot_number = 4
     /\ call.state = "neg") =>
        /\ built.ok
        /\ Len(built.val) = FrameLen
        /\ ~Bit(built.val, 18)
        /\ TrueBits(built.val) = {19}

C9_LegacyIndices ==
    (/\ SingleDotDone
     /\ call.cell_number \in 0..(NCells - 1)
     /\ call.dot_number \in 1..DotsPerCell
     /\ call.state \in StateKeys) =>
        LET first == call.cell_number * 12 + (call.dot_number - 1) * 2
        IN  /\ built.ok
            /\ Len(built.val) = FrameLen
            /\ TrueBits(built.val) \subseteq {first, first + 1}
            /\ (call.state = "brake" => TrueBits(built.val) = {first, first + 1})
            /\ (call.state = "high-z" => TrueBits(built.val) = {})
            /\ (call.state = "pos" => TrueBits(built.val) = {first})
            /\ (call.state = "neg" => TrueBits(built.val) = {first + 1})

\* C9: make_shift_register_state_single_dot(cell_number=1, dot_number=4,
\* state="neg") sets bits 18 and 19 to (false, true) and leaves the other 46
\* false; for cell_number in 0..3 and dot_number in 1..6 the bits the call may
\* set are cell_number*12+(dot_number-1)*2 and the next one, and no other.
C9_LegacyOneIndexedMapping == C9_LegacyScenario /\ C9_LegacyIndices

\* The scenario's call has returned.
C9_Witness ==
    /\ SingleDotDone
    /\ call.cell_number = 1 /\ call.dot_number = 4 /\ call.state = "neg"
    /\ built.ok
    /\ Bit(built.val, 19)

\* The state a pattern gives dot d.
PatternState(p, d) == IF p.isstr THEN p.str ELSE p.tup[d + 1]

ValidPattern(p) ==
    IF p.isstr THEN p.str \in StateKeys
    ELSE Len(p.tup) = DotsPerCell /\ \A d \in 1..DotsPerCell : p.tup[d] \in StateKeys

\* The parts of C10: the overlay, then the one-pattern case.
C10_Overlay ==
    (/\ ListOfCellsDone
     /\ Len(call.cell_states) <= NCells
     /\ \A c \in 1..Len(call.cell_states) : ValidPattern(call.cell_states[c])) =>
        /\ built.ok
        /\ Len(built.val) = FrameLen
        /\ \A c \in 0..(NCells - 1), d \in 0..(DotsPerCell - 1), b \in {0, 1} :
              Bit(built.val, BitIndex(c, d, b)) =
                  (IF c < Len(call.cell_states)
                   THEN encode(PatternState(call.cell_states[c + 1], d))[b]
                   ELSE FALSE)

C10_CellZeroPositive ==
    (ListOfCellsDone /\ call.cell_states = <<Uniform("pos")>>) =>
        /\ built.ok
        /\ Len(built.val) = FrameLen
        /\ \A i \in 0..(FrameLen - 1) : Bit(built.val, i) = (i < 12 /\ i % 2 = 0)

\* C10: for a list of at most 4 valid cell patterns the list-of-cells builder
\* returns a frame of 48 bits in which bits c*12+d*2 and c*12+d*2+1 are encode
\* of the state the c-th pattern gives dot d, for every listed cell c, and the
\* 12 bits of every cell not listed are false; the list of the one pattern
\* "pos" gives (true, false) pairs over bits 0..11 and false over bits 12..47.
C10_BuildCellsOverlay == C10_Overlay /\ C10_CellZeroPositive

\* Two cells listed, a per-dot tuple then a uniform state; cells 2 and 3 are not
\* listed.
C10_Witness ==
    /\ ListOfCellsDone
    /\ call.cell_states =
           <<PerDot(<<"neg", "high-z", "pos", "brake", "high-z", "neg">>),
             Uniform("pos")>>
    /\ built.ok
    /\ Bit(built.val, 1) /\ Bit(built.val, 12) /\ ~Bit(built.val, 24)

(***************************************************************************)
(* The frames of the controller, written out bit by bit: a cell driven     *)
(* Positive has IN_A (the even bit) set for each dot, Negative IN_B.       *)
(***************************************************************************)
AllPositive == [j \in 1..FrameLen |-> (j - 1) % 2 = 0]
AllNegative == [j \in 1..FrameLen |-> (j - 1) % 2 = 1]
AllHighImpedance == [j \in 1..FrameLen |-> FALSE]

DirectionFrame(d) == IF d = "pos" THEN AllPositive ELSE AllNegative

Acting == (pc = "act_call") \/ (pc \in PushPcs /\ stage = "act")
Holding == pc = "hold"
Reverting == (pc = "revert_call") \/ (pc \in PushPcs /\ stage = "revert")
Cooldown == pc \in {"debounce", "clear_led0", "clear_led1"}
Sampling == pc \in {"sample_sw1", "sample_sw2"}
InCycle == Acting \/ Holding \/ Reverting \/ Cooldown

\* The parts of C4: the pushes of one cycle, the alternation, where a push starts.
C4_CycleOrder ==
    /\ Len(pushed) <= 2
    /\ InCycle =>
          /\ direction \in {"pos", "neg"}
          /\ (direction = "pos") = (samples.read = <<0>>)
          /\ (direction = "neg") = (samples.read = <<1, 0>>)
    /\ Acting => pushed = <<>>
    /\ (Acting /\ pc \in PushPcs) => data = DirectionFrame(direction)
    /\ (Holding \/ Reverting) => pushed = <<DirectionFrame(direction)>>
    /\ (Reverting /\ pc \in PushPcs) => data = AllHighImpedance
    /\ Cooldown => pushed = <<DirectionFrame(direction), AllHighImpedance>>
    /\ (Sampling /\ pushed # <<>>) =>
          /\ Len(pushed) = 2
          /\ pushed[1] \in {AllPositive, AllNegative}
          /\ pushed[2] = AllHighImpedance

C4_PushesAlternate ==
    (pc = "ssr_rclk_low" /\ pc' # pc) =>
        IF stage = "act"
        THEN /\ committed' \in {AllPositive, AllNegative}
             /\ (cycles > 0 => committed = AllHighImpedance)
        ELSE /\ committed' = AllHighImpedance
             /\ committed \in {AllPositive, AllNegative}

C4_PushStartsOnlyInCycle ==
    (pc' = "ssr_check" /\ pc # "ssr_check") =>
        \/ pc = "act_call" /\ pushed = <<>>
        \/ pc = "revert_call" /\ Len(pushed) = 1

\* C4: a cycle begins only when a button was read pressed, with direction
\* Positive exactly when it was button 1.  It pushes one frame with all 4 cells
\* uniformly in that direction, holds, pushes one all-HighImpedance frame, and
\* pushes nothing more before the buttons are sampled again.  Over the run the
\* pushed frames alternate: a uniform-direction frame, then all-HighImpedance.
C4_ActionSequence ==
    /\ []C4_CycleOrder
    /\ [][C4_PushesAlternate /\ C4_PushStartsOnlyInCycle]_vars

\* Button 1 was read pressed in a second cycle, and both frames are pushed.
C4_Witness ==
    /\ pc = "debounce"
    /\ cycles >= 1
    /\ samples.read = <<0>>
    /\ pushed = <<AllPositive, AllHighImpedance>>

\* C5: when Cooldown starts the last frame pushed is the all-HighImpedance
\* frame; in Cooldown, and while sampling the buttons after at least one
\* completed cycle, the latched outputs are all false.
C5_NeverLeftEnergized ==
    /\ Cooldown => (pushed # <<>> /\ pushed[Len(pushed)] = AllHighImpedance)
    /\ (Cooldown \/ (Sampling /\ cycles >= 1)) =>
          /\ Len(outputs) = FrameLen
          /\ \A i \in 0..(FrameLen - 1) : ~Bit(outputs, i)

\* Cooldown after a Negative action.
C5_Witness ==
    /\ pc = "debounce"
    /\ direction = "neg"
    /\ pushed[1] = AllNegative
    /\ outputs = AllHighImpedance

\* The parts of C6: both pressed, button 2 alone, the sampling step.
C6_BothPressed ==
    (InCycle /\ pc # "clear_led1" /\ samples.levels = <<0, 0>>) =>
        /\ direction = "pos"
        /\ led0 = 1
        /\ led1 = 0
        /\ (pc \in PushPcs => data \in {AllPositive, AllHighImpedance})
        /\ (pushed # <<>> => pushed[1] = AllPositive)

C6_Button2Only ==
    (InCycle /\ (direction = "neg" \/ (led1 = 1 /\ pc # "clear_led1"))) =>
        /\ samples.read = <<1, 0>>
        /\ samples.levels[1] = 1
        /\ direction = "neg"
        /\ (pc # "clear_led1" => led0 = 0)

C6_SampleStep ==
    (pc = "sample_sw1" /\ pc' # pc /\ sw1 = 0 /\ sw2 = 0) =>
        /\ pc' = "act_call"
        /\ direction' = "pos"
        /\ led0' = 1
        /\ led1' = 0

\* C6: when both buttons are at 0 as the cycle samples them, the cycle does
\* button 1's action: direction Positive, indicator 1 lit, indicator 2 not lit,
\* the frame pushed all-Positive; button 2's action is taken only when button 1
\* read unpressed and button 2 read pressed.
C6_ButtonPriority ==
    /\ [](C6_BothPressed /\ C6_Button2Only)
    /\ [][C6_SampleStep]_vars

\* Both buttons were down at the sample and the Positive frame is held.
C6_Witness ==
    /\ pc = "hold"
    /\ samples.levels = <<0, 0>>
    /\ direction = "pos"
    /\ outputs = AllPositive
    /\ led0 = 1 /\ led1 = 0

Faults == {"ValueError", "KeyError", "IndexError"}

\* C7: when a fault propagates out of a control cycle the top-level loop does
\* not stop: main runs again (init_shift_register, then sampling).
C7_SupervisorRestarts ==
    [][(ret' \in Faults /\ ret \notin Faults) =>
          pc' = "main_start"]_vars

(***************************************************************************)
(* decode, the inverse of the code table, as the design documents define   *)
(* it; the firmware has no decoder.                                        *)
(***************************************************************************)
decode(a, b) ==
    CASE ~a /\ ~b -> "high-z"
      [] a /\ ~b  -> "pos"
      [] ~a /\ b  -> "neg"
      [] a /\ b   -> "brake"

\* The state decoded from the two bits of (cell, dot) in a frame.
DecodedDot(frame, cell, dot) ==
    decode(Bit(frame, BitIndex(cell, dot, 0)), Bit(frame, BitIndex(cell, dot, 1)))

ValidSingleDotCall ==
    /\ call.cell_number \in 0..(NCells - 1)
    /\ call.dot_number \in 1..DotsPerCell
    /\ call.state \in StateKeys

ValidListOfCellsCall ==
    /\ Len(call.cell_states) <= NCells
    /\ \A c \in 1..Len(call.cell_states) : ValidPattern(call.cell_states[c])

\* C11: the code table is a bijection between the four states and the four
\* bit pairs: the pair either builder writes for a dot decodes to the state
\* that was asked for, for each of the four states, and the two builders'
\* dictionaries are the same table.
C11_CodecRoundTrip ==
    /\ (SingleDotDone /\ ValidSingleDotCall) =>
          /\ built.ok
          /\ DecodedDot(built.val, call.cell_number, call.dot_number - 1)
                 = call.state
          /\ CellsDict[call.state] = SingleDotDict[call.state]
    /\ (ListOfCellsDone /\ ValidListOfCellsCall) =>
          /\ built.ok
          /\ \A c \in 0..(Len(call.cell_states) - 1), d \in 0..(DotsPerCell - 1) :
                DecodedDot(built.val, c, d)
                    = PatternState(call.cell_states[c + 1], d)

\* A per-dot pattern with all four states was built and decodes dot by dot.
C11_Witness ==
    /\ ListOfCellsDone
    /\ call.cell_states =
           <<Uniform("brake"),
             PerDot(<<"neg", "high-z", "pos", "brake", "high-z", "neg">>)>>
    /\ built.ok
    /\ DecodedDot(built.val, 0, 5) = "brake"
    /\ DecodedDot(built.val, 1, 0) = "neg"
    /\ DecodedDot(built.val, 1, 1) = "high-z"
    /\ DecodedDot(built.val, 1, 2) = "pos"

\* A builder call names a state that is not in the dictionary.
InvalidPattern(p) ==
    IF p.isstr THEN p.str \notin StateKeys
    ELSE \E d \in 1..Len(p.tup) : p.tup[d] \notin StateKeys

HasInvalidState ==
    IF call.fn = "single_dot" THEN call.state \notin StateKeys
    ELSE \E c \in 1..Len(call.cell_states) : InvalidPattern(call.cell_states[c])

\* The parts of C12: the builders, the cycle's state, the raising step.
C12_BuilderRejects ==
    (pc = "build_done" /\ HasInvalidState) =>
        /\ ~built.ok
        /\ built.val = <<>>
        /\ built.err \in {"KeyError", "IndexError"}
        /\ (call.fn = "single_dot" => built.err = "KeyError")
        /\ (call.fn = "list_of_cells" /\ Len(call.cell_states) <= NCells)
              => built.err = "KeyError"

C12_CycleStopped ==
    (caller = "main" /\ ret = "KeyError") =>
        /\ pc = "halted"
        /\ pushed = <<>>
        /\ srck = 0 /\ rclk = 0

C12_RaisingStep ==
    (ret' = "KeyError" /\ ret # "KeyError") =>
        /\ pc' \notin PushPcs
        /\ UNCHANGED <<lines, registers, line_writes, srck_rises, rclk_rises,
                       committed, pushed>>

\* C12: a state tag that is not one of the four, given to a builder as the
\* single state, a uniform cell state or an element of a per-dot tuple, makes
\* the construction fail with an error; no frame is returned and no default
\* is substituted; in a control cycle the error comes before any control line
\* is written and no frame is pushed.
C12_InvalidStateRejected ==
    /\ [](C12_BuilderRejects /\ C12_CycleStopped)
    /\ [][C12_RaisingStep]_vars

\* A cycle for button 1 asked for an unknown state after an earlier cycle.
C12_Witness ==
    /\ caller = "main"
    /\ ret = "KeyError"
    /\ cycles >= 1
    /\ led0 = 1
    /\ outputs = AllHighImpedance

\* C13 as stated: both indicators are low throughout the debounce wait.
C13_IndicatorsLowInDebounce ==
    pc = "debounce" => (led0 = 0 /\ led1 = 0)

\* The parts of C13: the debounce wait, then the steps around it.
C13_LitThroughDebounce ==
    pc = "debounce" =>
        /\ pushed = <<DirectionFrame(direction), AllHighImpedance>>
        /\ (direction = "pos" => (led0 = 1 /\ led1 = 0))
        /\ (direction = "neg" => (led0 = 0 /\ led1 = 1))

C13_Steps ==
    /\ (pc = "debounce" /\ pc' # pc) => (pc' = "clear_led0" /\ UNCHANGED leds)
    /\ (pc' = "clear_led0" /\ pc' # pc) => pc = "debounce"
    /\ (InCycle /\ pc' \in {"sample_sw1", "sample_sw2"}) =>
          (pc = "clear_led1" /\ led0 = 0 /\ led1' = 0)

\* C13 amended: after the Reverting push the controller waits the debounce
\* duration and only then clears both indicators, so the acting button's
\* indicator stays high (the other low) throughout the debounce wait, and the
\* next button sample happens only after that wait and after both indicators
\* are cleared.
C13_DebounceThenClear == []C13_LitThroughDebounce /\ [][C13_Steps]_vars

\* The debounce wait of a button 2 cycle, indicator 2 still lit.
C13_Witness ==
    /\ pc = "debounce"
    /\ samples.read = <<1, 0>>
    /\ led0 = 0 /\ led1 = 1

\* The parts of C14: what the cycle is decided by, and what a step may change.
C14_DecidedAtSample ==
    InCycle =>
        /\ samples.read \in {<<0>>, <<1, 0>>}
        /\ direction = (IF samples.read = <<0>> THEN "pos" ELSE "neg")
        /\ Len(pushed) <= 2
        /\ (pc \in PushPcs =>
               data = (IF stage = "act" THEN DirectionFrame(direction)
                       ELSE AllHighImpedance))

C14_Steps ==
    /\ samples' # samples => pc \in {"sample_sw1", "sample_sw2"}
    /\ (InCycle /\ pc # "clear_led1") => direction' = direction
    /\ (InCycle /\ (sw1' # sw1 \/ sw2' # sw2)) =>
          UNCHANGED <<pc, direction, stage, data, k, pushed, lines, leds,
                      registers>>

\* C14: between the sample that detects a press and the end of the cycle the
\* buttons are not read: a call of respond_to_buttons reads them only at its
\* start, and a press or release during Acting, Reverting or Cooldown pushes
\* no additional frame and leaves the direction of the cycle as it was.
C14_NoReentrancy == []C14_DecidedAtSample /\ [][C14_Steps]_vars

\* Button 1 started the cycle; it is released and button 2 pressed before the
\* revert.
C14_Witness ==
    /\ pc = "revert_call"
    /\ samples.levels = <<0, 1>>
    /\ sw1 = 1 /\ sw2 = 0
    /\ direction = "pos"
    /\ pushed = <<AllPositive>>

\* The parts of C15: the lines, then the order of calls.
C15_Lines ==
    /\ pc = "init_clear_high" => n_srclr = 0
    /\ pc \notin InitPcs => (n_srclr = 1 /\ n_oe = 0)
    /\ pc = "main_led0" => (srck = 0 /\ rclk = 0)
    /\ pc \in InitPcs =>
          (data = <<>> /\ ret = "none" /\ pushed = <<>> /\ cycles = 0)
    /\ pc \in PushPcs => Len(committed) = FrameLen

C15_Steps ==
    /\ (pc' \in InitPcs /\ pc' # pc) => pc \in InitPcs
    /\ n_srclr' # n_srclr => pc \in {"init_clear_low", "init_clear_high"}
    /\ (pc = "init_clear_low" /\ pc' # pc) => (n_srclr' = 0 /\ pc' = "init_clear_high")
    /\ (pc = "init_clear_high" /\ pc' # pc) => n_srclr' = 1

\* C15: init_shift_register drives CLEAR low and then high; when it returns
\* CLEAR is high, OUTPUT_ENABLE low, SHIFT_CLOCK low and LATCH_CLOCK low; it
\* has returned before the first set_shift_registers call, and it is not
\* called again while the controller cycles.
C15_InitOnceFirst == []C15_Lines /\ [][C15_Steps]_vars

\* init_shift_register has just returned, from a power-up with every line high.
C15_Witness ==
    /\ pc = "main_led0"
    /\ n_srclr = 1 /\ n_oe = 0 /\ srck = 0 /\ rclk = 0
    /\ ser_in = 1
    /\ led0 = 1 /\ led1 = 1

\* The list has a pattern for a cell the display does not have.
CellIndexOutOfRange ==
    ListOfCellsDone /\ Len(call.cell_states) > NCells

\* The first state the builder looks up for cell c (0-indexed).
FirstState(c) == ExpandCell(call.cell_states[c + 1])[1]

\* C16: the list-of-cells builder given more than 4 cell patterns (a pattern
\* for a cell index >= 4) fails with an error and returns no frame: IndexError
\* at the first dot of cell 4 when every state looked up until then is
\* recognized, KeyError when an unrecognized one comes first; the frame is not
\* truncated, wrapped or grown.
C16_CellIndexRejected ==
    CellIndexOutOfRange =>
        /\ ~built.ok
        /\ built.val = <<>>
        /\ built.err \in {"IndexError", "KeyError"}
        /\ ((\A c \in 1..NCells : ~InvalidPattern(call.cell_states[c]))
               /\ FirstState(NCells) \in StateKeys)
              => built.err = "IndexError"
        /\ built.err = "KeyError" => HasInvalidState

\* Five patterns with recognized states only: the fifth is what is rejected.
C16_Witness ==
    /\ CellIndexOutOfRange
    /\ ~HasInvalidState
    /\ call.cell_states[NCells + 1] = Uniform("pos")
    /\ built = Raised("IndexError")

\* The frames the controller's cycles are made of.
CycleFrames == {AllPositive, AllNegative, AllHighImpedance}

\* The parts of C17: the builders called directly, the controller's pushes,
\* the length check's outcome.
C17_BuiltLength ==
    (pc = "build_done" /\ built.ok) =>
        /\ Len(built.val) = FrameLen
        /\ DOMAIN built.val = 1..FrameLen

C17_CycleFramesWhole ==
    caller = "main" =>
        /\ pc \in PushPcs => (data \in CycleFrames /\ Len(data) = FrameLen)
        /\ \A i \in 1..Len(pushed) : Len(pushed[i]) = FrameLen
        /\ ret \notin Faults
        /\ pc # "halted"

C17_AcceptedStep ==
    (caller = "main" /\ pc = "ssr_check" /\ pc' # pc) =>
        (pc' = "ssr_ser_in" /\ ret' # "ValueError")

\* C17: every frame either builder returns has length exactly 48, however many
\* cells or dots the call names; so the frames the controller builds in its
\* cycles (uniform positive, uniform negative, all high-impedance) always pass
\* the length check of set_shift_registers.
C17_FrameLengthInvariant ==
    [](C17_BuiltLength /\ C17_CycleFramesWhole) /\ [][C17_AcceptedStep]_vars

\* A cycle's frame has just passed the length check.
C17_Witness ==
    /\ caller = "main"
    /\ pc = "ssr_ser_in"
    /\ k = 0
    /\ stage = "revert"
    /\ data = AllHighImpedance
    /\ pushed = <<AllNegative>>

\* The steps on which a line rises, and on which SER_IN is written.
SrckRises == srck = 0 /\ srck' = 1
RclkRises == rclk = 0 /\ rclk' = 1
SerInWritten == pc = "ssr_ser_in" /\ pc' # pc

\* The parts of C18: the edges counted, SRCK's level at each position, the
\* steps.
C18_EdgeCounts ==
    /\ pc \in PushPcs =>
          /\ srck_rises = k + (IF pc = "ssr_srck_low" THEN 1 ELSE 0)
          /\ srck_rises <= FrameLen
          /\ rclk_rises = (IF pc = "ssr_rclk_low" THEN 1 ELSE 0)
    /\ PushReturned => (srck_rises = FrameLen /\ rclk_rises = 1)

C18_ClockLevels ==
    /\ pc \in {"ssr_check", "ssr_ser_in", "ssr_srck_high", "ssr_rclk_high",
               "ssr_rclk_low"} => srck = 0
    /\ pc = "ssr_srck_low" => srck = 1
    /\ pc = "ssr_srck_high" =>
          ser_in = (IF data[FrameLen - k] THEN 1 ELSE 0)

C18_Steps ==
    /\ (SrckRises /\ pc \in PushPcs) =>
          /\ srck_rises' = srck_rises + 1
          /\ rclk_rises = 0
          /\ ser_in = (IF data[FrameLen - srck_rises' + 1] THEN 1 ELSE 0)
          /\ ser_in' = ser_in
          /\ chain'[1] = data[FrameLen - srck_rises' + 1]
    /\ ser_in' # ser_in => (SerInWritten /\ srck = 0 /\ srck' = 0)
    /\ SerInWritten => (srck = 0 /\ srck_rises = k)
    /\ RclkRises => (srck = 0 /\ srck' = 0 /\ srck_rises = FrameLen
                     /\ rclk_rises = 0)

\* C18: a set_shift_registers call that returns produces exactly 48 SRCK
\* rising edges and then exactly one RCLK rising edge; at the k-th SRCK rising
\* edge (k = 1..48) SER_IN equals data[48-k]; SER_IN is written before that
\* edge, with SRCK low, and does not change while SRCK is high; SRCK is low
\* again before the next bit is presented and before RCLK rises.
C18_BitProtocol ==
    [](C18_EdgeCounts /\ C18_ClockLevels) /\ [][C18_Steps]_vars

\* The 48th rising edge of SRCK is about to sample data[0] of a one-hot frame.
C18_Witness ==
    /\ pc = "ssr_srck_high"
    /\ data = OneHot(0)
    /\ srck_rises = FrameLen - 1
    /\ ser_in = 1 /\ srck = 0
    /\ \A i \in 1..(FrameLen - 1) : ~chain[i]

\* The parts of C19: the indicators at each position, and the steps that
\* change them.
C19_IndicatorLevels ==
    /\ (Acting \/ Holding \/ Reverting) =>
          /\ direction \in {"pos", "neg"}
          /\ led0 = (IF direction = "pos" THEN 1 ELSE 0)
          /\ led1 = (IF direction = "neg" THEN 1 ELSE 0)
    /\ Cooldown => ~(led0 = 1 /\ led1 = 1)
    /\ Sampling => (led0 = 0 /\ led1 = 0)
    /\ pc = "halted" => ~(led0 = 1 /\ led1 = 1)

C19_Steps ==
    /\ (led0 = 0 /\ led0' = 1) =>
          (pc = "sample_sw1" /\ sw1 = 0 /\ led1 = 0 /\ pc' = "act_call"
           /\ pushed' = <<>> /\ direction' = "pos")
    /\ (led1 = 0 /\ led1' = 1) =>
          (pc = "sample_sw2" /\ sw2 = 0 /\ led0 = 0 /\ pc' = "act_call"
           /\ pushed' = <<>> /\ direction' = "neg")
    /\ (led0 = 1 /\ led0' = 0) => pc \in {"main_led0", "clear_led0"}
    /\ (led1 = 1 /\ led1' = 0) => pc \in {"main_led1", "clear_led1"}
    /\ (InCycle /\ pc' \in {"sample_sw1", "sample_sw2"}) =>
          (led0' = 0 /\ led1' = 0)

\* C19: when a press is acted on, the acting button's indicator is set high
\* by the sampling step, before the Acting frame is pushed, and stays high
\* through Acting and Reverting while the other indicator stays low; the two
\* are never both high in a cycle; the end of the cycle clears both, so both
\* are low wherever the buttons are sampled.
C19_Indicators == []C19_IndicatorLevels /\ [][C19_Steps]_vars

\* The revert push of a button 1 cycle is about to latch; button 2 is held.
C19_Witness ==
    /\ pc = "ssr_rclk_high"
    /\ stage = "revert"
    /\ direction = "pos"
    /\ led0 = 1 /\ led1 = 0
    /\ sw2 = 0

\* C20: once a press has been sampled and Acting begins, the controller goes
\* on through the hold, Reverting and Cooldown and samples the buttons again;
\* no step of a cycle halts the program, and with every blocking wait
\* ending the buttons are sampled infinitely often.
C20_CycleCompletes ==
    /\ [](pc # "halted")
    /\ (Acting ~> Holding)
    /\ (Holding ~> Reverting)
    /\ (Reverting ~> Cooldown)
    /\ (Cooldown ~> Sampling)
    /\ []<>Sampling

\* A second cycle has completed, with button 1 still held, and the buttons are
\* about to be sampled again.
C20_Witness ==
    /\ pc = "sample_sw1"
    /\ cycles = MaxCycles
    /\ sw1 = 0
    /\ samples.read = <<0>>
    /\ pushed = <<AllPositive, AllHighImpedance>>

\* respond_to_buttons has returned having read both buttons unpressed.
NoPressReturned == pc = "sample_sw1" /\ samples.read = <<1, 1>>

\* The parts of C21: the state at the return, and the steps of the call.
C21_AtReturn ==
    NoPressReturned =>
        /\ pushed = <<>>
        /\ led0 = 0 /\ led1 = 0
        /\ srck = 0 /\ rclk = 0 /\ n_srclr = 1 /\ n_oe = 0
        /\ outputs = committed
        /\ direction = "none"

C21_Steps ==
    /\ (pc = "sample_sw1" /\ sw1 = 1 /\ pc' # pc) =>
          /\ pc' = "sample_sw2"
          /\ UNCHANGED <<lines, leds, registers, linkcall, linkhist, direction>>
    /\ (pc = "sample_sw2" /\ sw2 = 1 /\ pc' # pc) =>
          /\ pc' = "sample_sw1"
          /\ samples'.read = <<1, 1>>
          /\ UNCHANGED <<lines, leds, registers, linkcall, linkhist, direction,
                         pushed, cycles>>

\* C21: when both buttons read unpressed, respond_to_buttons returns without
\* pushing a frame and without writing a control line or an indicator; the
\* shift chain, the latched outputs and the indicators are as they were.
C21_NoPressNoEffect == []C21_AtReturn /\ [][C21_Steps]_vars

\* A cycle has run before; this call found no button pressed, and the outputs
\* still hold the high-impedance frame of that cycle.
C21_Witness ==
    /\ NoPressReturned
    /\ cycles = 1
    /\ outputs = AllHighImpedance
    /\ chain = AllHighImpedance
    /\ sw1 = 1 /\ sw2 = 1

\* The positions from which each function's writes to a pin are made.
InitWritePcs == {"init_clear_low", "init_clear_high", "init_oe", "init_srck",
                 "init_rclk"}
PushWritePcs == {"ssr_ser_in", "ssr_srck_high", "ssr_srck_low", "ssr_rclk_high",
                 "ssr_rclk_low"}
RespondLedPcs == {"sample_sw1", "sample_sw2", "clear_led0", "clear_led1"}
MainLedPcs == {"main_led0", "main_led1"}

\* The control lines are written by init_shift_register and
\* set_shift_registers only, and set_shift_registers writes neither CLEAR nor
\* OUTPUT_ENABLE nor an indicator; the builders write nothing.
C22_ControlLineWriters ==
    /\ lines' # lines => pc \in InitWritePcs \cup PushWritePcs
    /\ (n_srclr' # n_srclr \/ n_oe' # n_oe) => pc \in InitWritePcs
    /\ pc \in PushPcs => UNCHANGED <<n_srclr, n_oe, leds>>
    /\ pc \in InitPcs => UNCHANGED leds
    /\ pc \in {"build_call", "act_call", "revert_call", "hold", "debounce",
               "main_start"} => UNCHANGED <<lines, leds, registers>>
    /\ registers' # registers => pc \in InitWritePcs \cup PushWritePcs

\* C22 as stated: besides, the indicators are written by respond_to_buttons
\* only.
C22_SingleWriterAsStated ==
    [][C22_ControlLineWriters /\ (leds' # leds => pc \in RespondLedPcs)]_vars

C22_EnabledAfterInit ==
    pc \notin InitPcs \cup {"build_call", "build_done"} =>
        (n_srclr = 1 /\ n_oe = 0)

\* C22 amended: the five control lines are written only by
\* init_shift_register and set_shift_registers; the two indicator lines are
\* written by respond_to_buttons and by main, which clears both before its
\* loop; the frame builders write no line; set_shift_registers never writes
\* CLEAR, OUTPUT_ENABLE or an indicator, so after init_shift_register CLEAR
\* stays high and OUTPUT_ENABLE low.
C22_SingleWriter ==
    /\ []C22_EnabledAfterInit
    /\ [][C22_ControlLineWriters
          /\ (leds' # leds => pc \in RespondLedPcs \cup MainLedPcs)]_vars

\* A frame is being shifted in during a cycle: CLEAR high, outputs enabled,
\* the indicator of button 1 lit.
C22_Witness ==
    /\ caller = "main"
    /\ pc = "ssr_srck_low"
    /\ k = 10
    /\ n_srclr = 1 /\ n_oe = 0
    /\ led0 = 1 /\ led1 = 0
    /\ line_writes > 0

\* The single-dot call names a dot the display has.
AddressInRange ==
    /\ call.cell_number \in 0..(NCells - 1)
    /\ call.dot_number \in 1..DotsPerCell

\* The bit indices of the addressed cell, and of the addressed dot.
AddressedCellBits ==
    {i \in 0..(FrameLen - 1) :
        /\ i >= call.cell_number * DotsPerCell * BitsPerDot
        /\ i < (call.cell_number + 1) * DotsPerCell * BitsPerDot}

AddressedDotBits ==
    {call.cell_number * DotsPerCell * BitsPerDot
         + (call.dot_number - 1) * BitsPerDot + b : b \in {0, 1}}

\* C23: whenever make_shift_register_state_single_dot returns a frame, its
\* true bits are among the two bits of the addressed dot, inside the addressed
\* cell's 12 bits; a call with cell_number outside 0..3 or dot_number outside
\* 1..6 fails and returns no frame.
C23_OutOfRangeNotMisdirected ==
    SingleDotDone =>
        /\ built.ok =>
              /\ TrueBits(built.val) \subseteq AddressedDotBits
              /\ TrueBits(built.val) \subseteq AddressedCellBits
        /\ ~AddressInRange => ~built.ok

\* Between operations of the link: init_shift_register has returned and no
\* set_shift_registers call is past its entry.
BetweenOperations ==
    pc \in {"main_led0", "main_led1", "sample_sw1", "sample_sw2", "act_call",
            "hold", "revert_call", "debounce", "clear_led0", "clear_led1",
            "link_idle", "halted", "ssr_check"}

\* The parts of C24: the levels, and the entry and exit steps of a call.
C24_IdleLevels ==
    /\ BetweenOperations => (srck = 0 /\ rclk = 0)
    /\ pc \in PushPcs => ~(srck = 1 /\ rclk = 1)
    /\ pc \in PushPcs => (srck = 1 <=> pc = "ssr_srck_low")
    /\ pc \in PushPcs => (rclk = 1 <=> pc = "ssr_rclk_low")

C24_Steps ==
    /\ (pc' = "ssr_check" /\ pc' # pc) => (srck' = 0 /\ rclk' = 0)
    /\ (pc \in PushPcs /\ pc' \notin PushPcs) => (srck' = 0 /\ rclk' = 0)
    /\ (pc = "init_rclk" /\ pc' # pc) => (srck' = 0 /\ rclk' = 0)

\* C24: after init_shift_register, SRCK and RCLK are both low when a
\* set_shift_registers call is entered and when it returns or raises, and
\* throughout every hold, debounce wait and button sample; the two are never
\* high at the same time.
C24_ClocksIdleLow == []C24_IdleLevels /\ [][C24_Steps]_vars

\* The hold of a cycle: the push has returned, the clocks are low and the
\* driving frame is on the outputs.
C24_Witness ==
    /\ pc = "hold"
    /\ srck = 0 /\ rclk = 0
    /\ outputs = AllNegative
    /\ srck_rises = FrameLen /\ rclk_rises = 1

\* The list-of-cells argument that names the same dot: cell_number uniform
\* "high-z" cells, then a 6-tuple that is "high-z" except for state at tuple
\* position dot_number - 1.
SameDotAsCells(cell_number, dot_number, state) ==
    Repeat(Uniform("high-z"), cell_number)
        \o <<PerDot([d \in 1..DotsPerCell |->
                        IF d = dot_number THEN state ELSE "high-z"])>>

\* C25: for every cell_number in 0..3, dot_number in 1..6 and state, the
\* single-dot builder's result equals that of the list-of-cells builder
\* applied to cell_number uniform "high-z" cells followed by the 6-tuple that
\* is "high-z" except for the state at position dot_number - 1: the same
\* frame, or the same KeyError for a state that is not in the table.
C25_BuildersAgree ==
    (SingleDotDone /\ AddressInRange) =>
        /\ built = make_shift_register_list_of_cells(
                       SameDotAsCells(call.cell_number, call.dot_number,
                                      call.state))
        /\ built.ok <=> call.state \in StateKeys

\* Dot 3 of cell 2 driven negative: one true bit, index 29, from either builder.
C25_Witness ==
    /\ SingleDotDone
    /\ call.cell_number = 2 /\ call.dot_number = 3 /\ call.state = "neg"
    /\ built.ok
    /\ TrueBits(built.val) = {29}
    /\ make_shift_register_list_of_cells(SameDotAsCells(2, 3, "neg")) = built

=============================================================================
